---------------------------- MODULE Spec2Model ----------------------------
(***************************************************************************)
(* Forward kinematics and geometric Jacobian of the 7-joint Panda arm      *)
(* (src/fk.py), and the scorer that grades them.                           *)
(*                                                                         *)
(* Numbers.  The program computes in real arithmetic (numpy doubles).      *)
(* The model computes in exact rational arithmetic:                        *)
(*   - a length is an integer number of half-millimetres (0.0005 m), the   *)
(*     unit in which every a and d of the DH table is whole;               *)
(*   - an angle is the record [c, s, h] of a right triangle with integer   *)
(*     sides, cos = c/h and sin = s/h, so c*c + s*s = h*h;                 *)
(*   - a 4x4 homogeneous transform is an integer matrix M that stands for  *)
(*     the real matrix M / M[4][4]: the bottom-right entry, 1 in the       *)
(*     program, carries the common denominator, and the matrix product of  *)
(*     the program is the integer matrix product;                          *)
(*   - a 3-vector is [v |-> <<x, y, z>>, den |-> n], standing for v / n;   *)
(*   - a score is a fraction <<num, den>> in lowest terms.                 *)
(* Rounding error of the doubles is outside the model.                     *)
(***************************************************************************)
EXTENDS Integers, Sequences, FiniteSets, TLC

VARIABLES
    pc,                 \* position of the running function
    q,                  \* joint angles passed in (pose / q / joint_poses[i])
    DH_params,          \* the DH table passed in
    level,              \* get_transform_to_base_from: level
    flag,               \* get_transform_to_base_from: use_inclusive_range
    T,                  \* get_transform_to_base_from: returned transform
    base_in,            \* construct_jacobian: base_pose; your_fk: robot._base_position
    base_pose,          \* your_fk: base_pose (7-component pose)
    A,                  \* your_fk: A
    jacobian,           \* your_fk: jacobian; construct_jacobian: J returned
    ret,                \* your_fk, score_fk: whether the call returned or raised
    files,              \* score_fk: contents of the test-case files
    file_id,            \* score_fk: index of the file being scored
    case_i,             \* score_fk: index i of the case being scored
    fk_score,           \* score_fk: fk_score
    fk_error_cnt,       \* score_fk: fk_error_cnt
    jacobian_score,     \* score_fk: jacobian_score
    jacobian_error_cnt, \* score_fk: jacobian_error_cnt
    printed,            \* score_fk: the score messages printed, one per file
    total               \* score_fk: the total printed at the end

vars == <<pc, q, DH_params, level, flag, T, base_in, base_pose, A, jacobian, ret,
          files, file_id, case_i, fk_score, fk_error_cnt, jacobian_score,
          jacobian_error_cnt, printed, total>>

kinVars == <<q, DH_params, level, flag, T, base_in, base_pose, A, jacobian>>
scoreVars == <<files, file_id, case_i, fk_score, fk_error_cnt, jacobian_score,
               jacobian_error_cnt, printed, total>>

-----------------------------------------------------------------------------
(* Bounds of the model                                                     *)

\* at most this many joints of an input stand at an angle that is no
\* multiple of 90 degrees
MaxTilted == 2

\* at most this many test-case files are passed to score_fk
MaxFiles == 2

\* at most this many cases in the test-case files of a call, taken together
MaxCases == 8

-----------------------------------------------------------------------------
(* Angles                                                                  *)

Deg0 == [c |-> 1, s |-> 0, h |-> 1]
Deg90 == [c |-> 0, s |-> 1, h |-> 1]
DegM90 == [c |-> 0, s |-> -1, h |-> 1]
\* atan(4/3), about 53.13 degrees
Tilt == [c |-> 3, s |-> 4, h |-> 5]

Angles == {Deg0, Deg90, Tilt}

\* joint-angle vectors of length n with at most MaxTilted tilted joints
JointVectors(n) ==
    {v \in [1..n -> Angles] : Cardinality({k \in 1..n : v[k] = Tilt}) <= MaxTilted}

-----------------------------------------------------------------------------
(* get_panda_DH_params: a and d in half-millimetres                        *)

get_panda_DH_params ==
    << [a |-> 0,    d |-> 666, alpha |-> Deg0],
       [a |-> 0,    d |-> 0,   alpha |-> DegM90],
       [a |-> 0,    d |-> 632, alpha |-> Deg90],
       [a |-> 165,  d |-> 0,   alpha |-> Deg90],
       [a |-> -165, d |-> 768, alpha |-> DegM90],
       [a |-> 0,    d |-> 0,   alpha |-> Deg90],
       [a |-> 176,  d |-> 140, alpha |-> Deg90] >>

-----------------------------------------------------------------------------
(* Matrices and vectors                                                    *)

Identity4 ==
    << <<1, 0, 0, 0>>, <<0, 1, 0, 0>>, <<0, 0, 1, 0>>, <<0, 0, 0, 1>> >>

\* entry (i, j) of the product of two 4x4 matrices
Dot4(X, Y, i, j) ==
    X[i][1] * Y[1][j] + X[i][2] * Y[2][j] + X[i][3] * Y[3][j] + X[i][4] * Y[4][j]

Row4(X, Y, i) == <<Dot4(X, Y, i, 1), Dot4(X, Y, i, 2), Dot4(X, Y, i, 3), Dot4(X, Y, i, 4)>>

\* the @ of two 4x4 matrices
MatMul(X, Y) == <<Row4(X, Y, 1), Row4(X, Y, 2), Row4(X, Y, 3), Row4(X, Y, 4)>>

\* JointTransform with the sign of the entry -d*sin(alpha) lost
JointTransform_sign(th, p) ==
    LET al == p.alpha
    IN  << << th.c * al.h,  -(th.s) * al.h,  0,              p.a * th.h * al.h >>,
           << th.s * al.c,  th.c * al.c,     -(al.s) * th.h, p.d * al.s * th.h >>,
           << th.s * al.s,  th.c * al.s,     al.c * th.h,    p.d * al.c * th.h >>,
           << 0,            0,               0,              th.h * al.h >> >>

\* the per-joint matrix of the modified DH convention, for joint angle th
\* and DH record p, over the common denominator th.h * p.alpha.h
JointTransform(th, p) ==
    LET al == p.alpha
    IN  << << th.c * al.h,  -(th.s) * al.h,  0,              p.a * th.h * al.h >>,
           << th.s * al.c,  th.c * al.c,     -(al.s) * th.h, -(p.d) * al.s * th.h >>,
           << th.s * al.s,  th.c * al.s,     al.c * th.h,    p.d * al.c * th.h >>,
           << 0,            0,               0,              th.h * al.h >> >>

\* what a call that raises IndexError yields in place of a matrix
IndexError == <<"IndexError">>

\* get_transform_to_base_from without lines 51-52: the flag is left as passed
transform_flag_as_passed(lvl, pose, DH, use_inclusive_range) ==
    LET loop[k \in 0..lvl] ==
            IF k = 0 THEN Identity4
            ELSE MatMul(loop[k - 1], JointTransform(pose[k], DH[k]))
    IN  IF lvl > Len(pose) \/ lvl > Len(DH) THEN IndexError
        ELSE IF use_inclusive_range
             THEN IF lvl + 1 > Len(pose) \/ lvl + 1 > Len(DH) THEN IndexError
                  ELSE MatMul(loop[lvl], JointTransform(pose[lvl + 1], DH[lvl + 1]))
             ELSE loop[lvl]

\* get_transform_to_base_from with an early "if level == 0: return T"
transform_level0_identity(lvl, pose, DH, use_inclusive_range) ==
    LET inclusive == IF lvl # Len(DH) THEN TRUE ELSE use_inclusive_range
        loop[k \in 0..lvl] ==
            IF k = 0 THEN Identity4
            ELSE MatMul(loop[k - 1], JointTransform(pose[k], DH[k]))
    IN  IF lvl = 0 THEN Identity4
        ELSE IF lvl > Len(pose) \/ lvl > Len(DH) THEN IndexError
        ELSE IF inclusive
             THEN IF lvl + 1 > Len(pose) \/ lvl + 1 > Len(DH) THEN IndexError
                  ELSE MatMul(loop[lvl], JointTransform(pose[lvl + 1], DH[lvl + 1]))
             ELSE loop[lvl]

\* get_transform_to_base_from(level, pose, DH_params, use_inclusive_range):
\* the transform returned, or IndexError when pose[i] or DH_params[i] is
\* read out of range
get_transform_to_base_from(lvl, pose, DH, use_inclusive_range) ==
    LET inclusive == IF lvl # Len(DH) THEN TRUE ELSE use_inclusive_range
        loop[k \in 0..lvl] ==
            IF k = 0 THEN Identity4
            ELSE MatMul(loop[k - 1], JointTransform(pose[k], DH[k]))
    IN  IF lvl > Len(pose) \/ lvl > Len(DH) THEN IndexError
        ELSE IF inclusive
             THEN IF lvl + 1 > Len(pose) \/ lvl + 1 > Len(DH) THEN IndexError
                  ELSE MatMul(loop[lvl], JointTransform(pose[lvl + 1], DH[lvl + 1]))
             ELSE loop[lvl]

\* greatest common divisor and least common multiple of two positive integers
RECURSIVE GCD(_, _)
GCD(m, n) == IF n = 0 THEN m ELSE GCD(n, m % n)

LCM(m, n) == (m \div GCD(m, n)) * n

\* the difference u - w of two 3-vectors, over the least common denominator
VecSub(u, w) ==
    LET L == LCM(u.den, w.den)
        fu == L \div u.den
        fw == L \div w.den
    IN  [v |-> << u.v[1] * fu - w.v[1] * fw,
                  u.v[2] * fu - w.v[2] * fw,
                  u.v[3] * fu - w.v[3] * fw >>,
         den |-> L]

\* cross(a, b) = np.cross(a, b)
cross(a, b) ==
    [v |-> << a.v[2] * b.v[3] - a.v[3] * b.v[2],
              a.v[3] * b.v[1] - a.v[1] * b.v[3],
              a.v[1] * b.v[2] - a.v[2] * b.v[1] >>,
     den |-> a.den * b.den]

\* ZColumn with the homogeneous vector [0,0,1,1]^T in place of [0,0,1]^T
ZColumn_homogeneous(M) ==
    [v |-> <<M[1][3] + M[1][4], M[2][3] + M[2][4], M[3][3] + M[3][4]>>, den |-> M[4][4]]

\* M[:3,:3] @ [0,0,1]^T : the third column of the rotation block
ZColumn(M) == [v |-> <<M[1][3], M[2][3], M[3][3]>>, den |-> M[4][4]]

\* (M @ [0,0,0,1]^T)[0:3] : the origin of the frame
Origin(M) == [v |-> <<M[1][4], M[2][4], M[3][4]>>, den |-> M[4][4]]

\* calc_Z on the frame at the start of joint l: only joints 0..l-1 composed
calc_Z_start_frame(l, pose, DH, base) ==
    ZColumn(MatMul(base, get_transform_to_base_from(l, pose, SubSeq(DH, 1, l), FALSE)))

\* calc_Z(l, q, DH_params, base_pose); l counts from 0 as in the program
calc_Z(l, pose, DH, base) ==
    ZColumn(MatMul(base, get_transform_to_base_from(l, pose, DH, FALSE)))

\* calc_P with the lever arm taken from the frame one joint earlier
calc_P_previous_frame(l, pose, n_joints, DH, base) ==
    LET P_0E == Origin(MatMul(base, get_transform_to_base_from(n_joints, pose, DH, FALSE)))
        P_0_from_i_1 == Origin(MatMul(base,
                            get_transform_to_base_from(l, pose, SubSeq(DH, 1, l), FALSE)))
    IN  VecSub(P_0E, P_0_from_i_1)

\* calc_P(l, q, n_joints, DH_params, base_pose)
calc_P(l, pose, n_joints, DH, base) ==
    LET P_0E == Origin(MatMul(base, get_transform_to_base_from(n_joints, pose, DH, FALSE)))
        P_0_from_i_1 == Origin(MatMul(base, get_transform_to_base_from(l, pose, DH, FALSE)))
    IN  VecSub(P_0E, P_0_from_i_1)

\* JacobianColumn with the operands of the cross product exchanged
JacobianColumn_swapped(i, pose, n_joints, DH, base) ==
    LET Z == calc_Z(i, pose, DH, base)
        P == calc_P(i, pose, n_joints, DH, base)
    IN  [lin |-> cross(P, Z), ang |-> Z]

\* column i of the Jacobian: J[:,i] = vstack(J_Li, J_Ai)
JacobianColumn(i, pose, n_joints, DH, base) ==
    LET Z == calc_Z(i, pose, DH, base)
        P == calc_P(i, pose, n_joints, DH, base)
    IN  [lin |-> cross(Z, P), ang |-> Z]

\* construct_jacobian(n_joints, q, DH_params, base_pose): the 6 x n_joints
\* matrix as the sequence of its columns, column i of the program at i + 1
construct_jacobian(n_joints, pose, DH, base) ==
    [k \in 1..n_joints |-> JacobianColumn(k - 1, pose, n_joints, DH, base)]

-----------------------------------------------------------------------------
(* your_fk: poses, and the fixed correction of the end-effector frame      *)
(*                                                                         *)
(* The correction turns by -45 degrees, whose cosine is sqrt(2)/2.  The    *)
(* matrix A of your_fk is therefore the record [rat, irr] of two integer   *)
(* matrices that stands for (rat + (sqrt(2)/2) * irr) / rat[4][4].         *)

\* the number of joints your_fk asserts
NumJoints == 7

Zero4 ==
    << <<0, 0, 0, 0>>, <<0, 0, 0, 0>>, <<0, 0, 0, 0>>, <<0, 0, 0, 0>> >>

\* utils.bullet_utils.get_matrix_from_pose: the 4x4 transform of the pose
\* <<x, y, z, qx, qy, qz, qw>> with a unit quaternion of integer components
get_matrix_from_pose(p) ==
    LET x == p[4]  y == p[5]  z == p[6]  w == p[7]
    IN  << << 1 - 2 * (y * y + z * z), 2 * (x * y - z * w),     2 * (x * z + y * w),     p[1] >>,
           << 2 * (x * y + z * w),     1 - 2 * (x * x + z * z), 2 * (y * z - x * w),     p[2] >>,
           << 2 * (x * z - y * w),     2 * (y * z + x * w),     1 - 2 * (x * x + y * y), p[3] >>,
           << 0, 0, 0, 1 >> >>

\* utils.bullet_utils.get_pose_from_matrix: position and orientation of X;
\* the orientation is kept as the rotation it encodes
get_pose_from_matrix(X) ==
    [pos |-> [v |-> <<X.rat[1][4], X.rat[2][4], X.rat[3][4]>>,
              w |-> <<X.irr[1][4], X.irr[2][4], X.irr[3][4]>>,
              den |-> X.rat[4][4]],
     orn |-> [rat |-> [i \in 1..3 |-> [j \in 1..3 |-> X.rat[i][j]]],
              irr |-> [i \in 1..3 |-> [j \in 1..3 |-> X.irr[i][j]]],
              den |-> X.rat[4][4]]]

\* R.from_rotvec([0, 0, -0.785398163397]).as_matrix(), as a 4x4 matrix with
\* nothing outside the rotation block:
\*   [[h, h, 0], [-h, h, 0], [0, 0, 1]]  with h = sqrt(2)/2
adjustment ==
    [rat |-> << <<0, 0, 0, 0>>, <<0, 0, 0, 0>>, <<0, 0, 1, 0>>, <<0, 0, 0, 0>> >>,
     irr |-> << <<1, 1, 0, 0>>, <<-1, 1, 0, 0>>, <<0, 0, 0, 0>>, <<0, 0, 0, 0>> >>]

\* M with its 3x3 rotation block replaced by that of B
WithBlock(M, B) ==
    << <<B[1][1], B[1][2], B[1][3], M[1][4]>>,
       <<B[2][1], B[2][2], B[2][3], M[2][4]>>,
       <<B[3][1], B[3][2], B[3][3], M[3][4]>>,
       M[4] >>

\* M with everything outside its 3x3 rotation block set to 0
BlockOf(M) ==
    << <<M[1][1], M[1][2], M[1][3], 0>>,
       <<M[2][1], M[2][2], M[2][3], 0>>,
       <<M[3][1], M[3][2], M[3][3], 0>>,
       <<0, 0, 0, 0>> >>

\* the correction applied to the whole of A from the left: A = adjustment @ A
AdjustRotation_whole(X) ==
    [rat |-> MatMul(<< <<0, 0, 0, 0>>, <<0, 0, 0, 0>>, <<0, 0, 1, 0>>, <<0, 0, 0, 1>> >>,
                    X.rat),
     irr |-> MatMul(adjustment.irr, X.rat)]

\* A[:3, :3] = A[:3, :3] @ adjustment, for an A that is rational (X.irr = 0),
\* as it is when your_fk reaches that line
AdjustRotation(X) ==
    [rat |-> WithBlock(X.rat, MatMul(BlockOf(X.rat), adjustment.rat)),
     irr |-> WithBlock(X.irr, MatMul(BlockOf(X.rat), adjustment.irr))]

\* the assert with len(q) >= 7 in place of len(q) == 7
LengthsOk_at_least(DH, pose) == Len(DH) = NumJoints /\ Len(pose) >= NumJoints

\* the condition of the assert of your_fk
LengthsOk(DH, pose) == Len(DH) = NumJoints /\ Len(pose) = NumJoints

ZeroVec == [v |-> <<0, 0, 0>>, den |-> 1]

\* np.zeros((6, 7))
ZeroJacobian == [k \in 1..NumJoints |-> [lin |-> ZeroVec, ang |-> ZeroVec]]

-----------------------------------------------------------------------------
(* Inputs                                                                  *)

\* DH tables: the Panda table and its prefixes
DHTables == {SubSeq(get_panda_DH_params, 1, n) : n \in 0..Len(get_panda_DH_params)}

\* base poses as 4x4 transforms: one of identity orientation and one turned
\* by 90 degrees about x, both away from the origin
BasePoses ==
    { << <<1, 0, 0, 400>>, <<0, 1, 0, -200>>, <<0, 0, 1, 1250>>, <<0, 0, 0, 1>> >>,
      << <<1, 0, 0, 100>>, <<0, 0, -1, 0>>, <<0, 1, 0, 300>>, <<0, 0, 0, 1>> >> }

\* the value of a variable the specification at hand does not use
Unused == "unused"

\* values of the variables a call has not assigned yet
NoValue == <<>>
NoMatrix == [rat |-> <<>>, irr |-> <<>>]
Running == [status |-> "running"]
Raised(e) == [status |-> "raised", error |-> e]

-----------------------------------------------------------------------------
(* SpecT: one call of get_transform_to_base_from                           *)

InitT ==
    /\ pc = "T_call"
    /\ DH_params \in DHTables
    /\ q \in JointVectors(Len(DH_params))
    /\ level \in 0..Len(DH_params)
    /\ flag \in BOOLEAN
    /\ T = NoValue
    /\ base_in = Unused /\ base_pose = Unused /\ A = Unused
    /\ jacobian = Unused /\ ret = Unused
    /\ files = Unused /\ file_id = Unused /\ case_i = Unused
    /\ fk_score = Unused /\ fk_error_cnt = Unused
    /\ jacobian_score = Unused /\ jacobian_error_cnt = Unused
    /\ printed = Unused /\ total = Unused

T_Return ==
    /\ pc = "T_call"
    /\ T' = get_transform_to_base_from(level, q, DH_params, flag)
    /\ pc' = "T_done"
    /\ UNCHANGED <<q, DH_params, level, flag, base_in, base_pose, A, jacobian, ret>>
    /\ UNCHANGED scoreVars

NextT == T_Return

SpecT == InitT /\ [][NextT]_vars

-----------------------------------------------------------------------------
(* SpecJ: one call of construct_jacobian, with n_joints = len(DH_params)   *)

InitJ ==
    /\ pc = "J_call"
    /\ DH_params \in DHTables
    /\ q \in JointVectors(Len(DH_params))
    /\ base_in \in BasePoses
    /\ jacobian = NoValue
    /\ level = Unused /\ flag = Unused /\ T = Unused
    /\ base_pose = Unused /\ A = Unused /\ ret = Unused
    /\ files = Unused /\ file_id = Unused /\ case_i = Unused
    /\ fk_score = Unused /\ fk_error_cnt = Unused
    /\ jacobian_score = Unused /\ jacobian_error_cnt = Unused
    /\ printed = Unused /\ total = Unused

J_Return ==
    /\ pc = "J_call"
    /\ jacobian' = construct_jacobian(Len(DH_params), q, DH_params, base_in)
    /\ pc' = "J_done"
    /\ UNCHANGED <<q, DH_params, level, flag, T, base_in, base_pose, A, ret>>
    /\ UNCHANGED scoreVars

NextJ == J_Return

SpecJ == InitJ /\ [][NextJ]_vars

-----------------------------------------------------------------------------
(* SpecFK: one call of your_fk(robot, DH_params, q)                        *)

\* robot._base_position, in half-millimetres
BasePositions == { <<0, 0, 0>>, <<400, -200, 1250>> }

\* DH tables of 6, 7 and 8 joints
FKTables ==
    { SubSeq(get_panda_DH_params, 1, NumJoints - 1),
      get_panda_DH_params,
      Append(get_panda_DH_params, get_panda_DH_params[NumJoints]) }

InitFK ==
    /\ pc = "FK_call"
    /\ DH_params \in FKTables
    /\ \E n \in (NumJoints - 1)..(NumJoints + 1) : q \in JointVectors(n)
    /\ base_in \in BasePositions
    /\ base_pose = NoValue /\ A = NoMatrix /\ jacobian = NoValue /\ ret = Running
    /\ level = Unused /\ flag = Unused /\ T = Unused
    /\ files = Unused /\ file_id = Unused /\ case_i = Unused
    /\ fk_score = Unused /\ fk_error_cnt = Unused
    /\ jacobian_score = Unused /\ jacobian_error_cnt = Unused
    /\ printed = Unused /\ total = Unused

\* lines 126-127: base_pose = list(base_pos) + [0, 0, 0, 1]
FK_BasePose ==
    /\ pc = "FK_call"
    /\ base_pose' = base_in \o <<0, 0, 0, 1>>
    /\ pc' = "FK_assert"
    /\ UNCHANGED <<q, DH_params, level, flag, T, base_in, A, jacobian, ret>>
    /\ UNCHANGED scoreVars

\* lines 129-130: the assert
FK_Assert ==
    /\ pc = "FK_assert"
    /\ IF LengthsOk(DH_params, q)
       THEN pc' = "FK_init" /\ ret' = ret
       ELSE pc' = "FK_raised" /\ ret' = Raised("AssertionError")
    /\ UNCHANGED <<q, DH_params, level, flag, T, base_in, base_pose, A, jacobian>>
    /\ UNCHANGED scoreVars

\* lines 132-133
FK_Init ==
    /\ pc = "FK_init"
    /\ A' = [rat |-> get_matrix_from_pose(base_pose), irr |-> Zero4]
    /\ jacobian' = ZeroJacobian
    /\ pc' = "FK_chain"
    /\ UNCHANGED <<q, DH_params, level, flag, T, base_in, base_pose, ret>>
    /\ UNCHANGED scoreVars

\* line 145: A = A @ get_transform_to_base_from(7, q, DH_params)
FK_Chain ==
    /\ pc = "FK_chain"
    /\ LET chain == get_transform_to_base_from(NumJoints, q, DH_params, FALSE)
       IN  A' = [rat |-> MatMul(A.rat, chain), irr |-> MatMul(A.irr, chain)]
    /\ pc' = "FK_jacobian"
    /\ UNCHANGED <<q, DH_params, level, flag, T, base_in, base_pose, jacobian, ret>>
    /\ UNCHANGED scoreVars

\* lines 148-149
FK_Jacobian ==
    /\ pc = "FK_jacobian"
    /\ LET n_joints == Len(DH_params)
       IN  jacobian' = construct_jacobian(n_joints, q, DH_params,
                                          get_matrix_from_pose(base_pose))
    /\ pc' = "FK_adjust"
    /\ UNCHANGED <<q, DH_params, level, flag, T, base_in, base_pose, A, ret>>
    /\ UNCHANGED scoreVars

\* lines 153-154
FK_Adjust ==
    /\ pc = "FK_adjust"
    /\ A' = AdjustRotation(A)
    /\ pc' = "FK_return"
    /\ UNCHANGED <<q, DH_params, level, flag, T, base_in, base_pose, jacobian, ret>>
    /\ UNCHANGED scoreVars

\* lines 158-160
FK_Return ==
    /\ pc = "FK_return"
    /\ ret' = [status |-> "returned",
               pose_7d |-> get_pose_from_matrix(A), jacobian |-> jacobian]
    /\ pc' = "FK_done"
    /\ UNCHANGED <<q, DH_params, level, flag, T, base_in, base_pose, A, jacobian>>
    /\ UNCHANGED scoreVars

NextFK ==
    \/ FK_BasePose
    \/ FK_Assert
    \/ FK_Init
    \/ FK_Chain
    \/ FK_Jacobian
    \/ FK_Adjust
    \/ FK_Return

SpecFK == InitFK /\ [][NextFK]_vars

-----------------------------------------------------------------------------
(* score_fk: fractions, constants, inputs                                  *)

\* the fraction n / d (d # 0) in lowest terms with a positive denominator
Frac(n, d) ==
    LET sn == IF d < 0 THEN -n ELSE n
        sd == IF d < 0 THEN -d ELSE d
        g == GCD(IF sn < 0 THEN -sn ELSE sn, sd)
    IN  <<sn \div g, sd \div g>>

FracOf(n) == <<n, 1>>
FracAdd(x, y) == Frac(x[1] * y[2] + y[1] * x[2], x[2] * y[2])
FracSub(x, y) == Frac(x[1] * y[2] - y[1] * x[2], x[2] * y[2])
FracMul(x, y) == Frac(x[1] * y[1], x[2] * y[2])
FracDiv(x, y) == Frac(x[1] * y[2], x[2] * y[1])
FracLess(x, y) == x[1] * y[2] < y[1] * x[2]

JACOBIAN_SCORE_MAX == 10
JACOBIAN_ERROR_THRESH == Frac(5, 100)
FK_SCORE_MAX == 10
FK_ERROR_THRESH == Frac(5, 1000)
TASK1_SCORE_MAX == JACOBIAN_SCORE_MAX + FK_SCORE_MAX

\* A case of a test-case file holds joint_poses[i], poses[i] and jacobian[i].
\* The model holds in their place the two norms the scorer computes from
\* them: fk_error = |your_pose - poses[i]| and jacobian_error =
\* |your_jacobian - jacobian[i]|.  A case has one norm at its threshold and
\* the other just above it.
CaseKinds ==
    { [fk_error |-> Frac(5, 1000), jacobian_error |-> Frac(51, 1000)],
      [fk_error |-> Frac(6, 1000), jacobian_error |-> Frac(5, 100)] }

RECURSIVE FileLists(_, _)
\* the lists of n test-case files that hold at most budget cases together
FileLists(n, budget) ==
    IF n = 0 THEN {<<>>}
    ELSE UNION { { Append(fs, f) : fs \in FileLists(n - 1, budget - c),
                                   f \in [1..c -> CaseKinds] } : c \in 0..budget }

\* penalty = (TASK1_SCORE_MAX / testcase_file_num) / (0.3 * cases_num)
Penalty(testcase_file_num, cases_num) ==
    FracDiv(Frac(TASK1_SCORE_MAX, testcase_file_num),
            FracMul(Frac(3, 10), FracOf(cases_num)))

\* the comparison with >= in place of >
Exceeds_at_least(error, thresh) == ~FracLess(error, thresh)

\* if fk_error > FK_ERROR_THRESH / if jacobian_error > JACOBIAN_ERROR_THRESH
Exceeds(error, thresh) == FracLess(thresh, error)

\* 0.0 if score < 0.0 else score
Clamp(score) == IF FracLess(score, FracOf(0)) THEN FracOf(0) ELSE score

RECURSIVE SumScores(_, _)
\* the loop of lines 235-237 over the first k files
SumScores(scores, k) ==
    IF k = 0 THEN FracOf(0) ELSE FracAdd(SumScores(scores, k - 1), scores[k])

-----------------------------------------------------------------------------
(* SpecScore: one call of score_fk(robot, testcase_files)                  *)

InitScore ==
    /\ pc = "S_call"
    /\ \E n \in 0..MaxFiles : files \in FileLists(n, MaxCases)
    /\ file_id = 0 /\ case_i = 0
    /\ fk_score = NoValue /\ fk_error_cnt = NoValue
    /\ jacobian_score = NoValue /\ jacobian_error_cnt = NoValue
    /\ printed = <<>> /\ total = [status |-> "none"]
    /\ ret = Running
    /\ q = Unused /\ DH_params = Unused /\ level = Unused /\ flag = Unused
    /\ T = Unused /\ base_in = Unused /\ base_pose = Unused /\ A = Unused
    /\ jacobian = Unused

\* lines 167-180
S_Init ==
    /\ pc = "S_call"
    /\ LET testcase_file_num == Len(files)
       IN  /\ fk_score' = [f \in 1..testcase_file_num |->
                              Frac(FK_SCORE_MAX, testcase_file_num)]
           /\ fk_error_cnt' = [f \in 1..testcase_file_num |-> 0]
           /\ jacobian_score' = [f \in 1..testcase_file_num |->
                                    Frac(JACOBIAN_SCORE_MAX, testcase_file_num)]
           /\ jacobian_error_cnt' = [f \in 1..testcase_file_num |-> 0]
           /\ file_id' = 0
           /\ pc' = IF testcase_file_num = 0 THEN "S_total" ELSE "S_file"
    /\ UNCHANGED <<files, case_i, printed, total, ret>>
    /\ UNCHANGED kinVars

\* lines 181-195: open the file, count its cases, compute penalty; a file
\* without cases makes 0.3 * cases_num zero and the division raises
S_FileStart ==
    /\ pc = "S_file"
    /\ LET cases_num == Len(files[file_id + 1])
       IN  IF cases_num = 0
           THEN pc' = "S_raised" /\ ret' = Raised("ZeroDivisionError") /\ case_i' = case_i
           ELSE pc' = "S_case" /\ ret' = ret /\ case_i' = 0
    /\ UNCHANGED <<files, file_id, fk_score, fk_error_cnt, jacobian_score,
                   jacobian_error_cnt, printed, total>>
    /\ UNCHANGED kinVars

\* lines 197-219: one iteration of the loop over the cases of the file
S_Case ==
    /\ pc = "S_case"
    /\ case_i < Len(files[file_id + 1])
    /\ LET f == file_id + 1
           case == files[f][case_i + 1]
           penalty == Penalty(Len(files), Len(files[f]))
           fk_bad == Exceeds(case.fk_error, FK_ERROR_THRESH)
           jac_bad == Exceeds(case.jacobian_error, JACOBIAN_ERROR_THRESH)
       IN  /\ fk_score' = IF fk_bad
                          THEN [fk_score EXCEPT ![f] = FracSub(@, penalty)]
                          ELSE fk_score
           /\ fk_error_cnt' = IF fk_bad
                              THEN [fk_error_cnt EXCEPT ![f] = @ + 1]
                              ELSE fk_error_cnt
           /\ jacobian_score' = IF jac_bad
                                THEN [jacobian_score EXCEPT ![f] = FracSub(@, penalty)]
                                ELSE jacobian_score
           /\ jacobian_error_cnt' = IF jac_bad
                                    THEN [jacobian_error_cnt EXCEPT ![f] = @ + 1]
                                    ELSE jacobian_error_cnt
           /\ printed' = Append(printed, [what |-> "case", file |-> file_id, i |-> case_i])
    /\ case_i' = case_i + 1
    /\ pc' = "S_case"
    /\ UNCHANGED <<files, file_id, total, ret>>
    /\ UNCHANGED kinVars

\* lines 221-230: after the last case, clamp the two scores and print them
S_FileEnd ==
    /\ pc = "S_case"
    /\ case_i = Len(files[file_id + 1])
    /\ LET f == file_id + 1
           testcase_file_num == Len(files)
       IN  /\ fk_score' = [fk_score EXCEPT ![f] = Clamp(@)]
           /\ jacobian_score' = [jacobian_score EXCEPT ![f] = Clamp(@)]
           /\ printed' = Append(printed,
                  [what |-> "score", file |-> file_id,
                   fk_score |-> Clamp(fk_score[f]),
                   fk_max |-> Frac(FK_SCORE_MAX, testcase_file_num),
                   fk_error_cnt |-> fk_error_cnt[f],
                   jacobian_score |-> Clamp(jacobian_score[f]),
                   jacobian_max |-> Frac(JACOBIAN_SCORE_MAX, testcase_file_num),
                   jacobian_error_cnt |-> jacobian_error_cnt[f],
                   cases_num |-> Len(files[f])])
           /\ file_id' = file_id + 1
           /\ pc' = IF file_id + 1 = testcase_file_num THEN "S_total" ELSE "S_file"
    /\ UNCHANGED <<files, case_i, fk_error_cnt, jacobian_error_cnt, total, ret>>
    /\ UNCHANGED kinVars

\* lines 231-242: add up the scores of the files and print the total
S_Total ==
    /\ pc = "S_total"
    /\ LET testcase_file_num == Len(files)
           total_fk_score == SumScores(fk_score, testcase_file_num)
           total_jacobian_score == SumScores(jacobian_score, testcase_file_num)
       IN  total' = [status |-> "printed",
                     score |-> FracAdd(total_fk_score, total_jacobian_score),
                     max |-> FracOf(FK_SCORE_MAX + JACOBIAN_SCORE_MAX)]
    /\ pc' = "S_done"
    /\ ret' = [status |-> "returned"]
    /\ UNCHANGED <<files, file_id, case_i, fk_score, fk_error_cnt, jacobian_score,
                   jacobian_error_cnt, printed>>
    /\ UNCHANGED kinVars

NextScore ==
    \/ S_Init
    \/ S_FileStart
    \/ S_Case
    \/ S_FileEnd
    \/ S_Total

SpecScore == InitScore /\ [][NextScore]_vars

-----------------------------------------------------------------------------
(* Properties.  Equality of two rationals held over different denominators *)
(* is equality of their lowest terms.                                      *)

Abs(n) == IF n < 0 THEN -n ELSE n

\* the 3-vector u in lowest terms
Lowest(u) ==
    LET g == GCD(GCD(Abs(u.v[1]), Abs(u.v[2])), GCD(Abs(u.v[3]), u.den))
    IN  [v |-> <<u.v[1] \div g, u.v[2] \div g, u.v[3] \div g>>, den |-> u.den \div g]

VecEq(u, w) == Lowest(u) = Lowest(w)

\* row i of the 4x4 matrix M without its last entry, over the denominator of M
RowVec(M, i) == [v |-> <<M[i][1], M[i][2], M[i][3]>>, den |-> M[4][4]]

\* the two 4x4 transforms stand for the same real matrix
MatEq(X, Y) ==
    /\ \A i \in 1..3 : VecEq(RowVec(X, i), RowVec(Y, i))
    /\ VecEq(Origin(X), Origin(Y))

RECURSIVE ChainProduct(_, _, _)
\* the product T_0 T_1 ... T_(k-1) of the first k joint matrices, in joint order
ChainProduct(k, pose, DH) ==
    IF k = 0 THEN Identity4
    ELSE MatMul(ChainProduct(k - 1, pose, DH), JointTransform(pose[k], DH[k]))

\* C5 (as claimed): get_transform_to_base_from called with level 0 returns
\* the 4x4 identity for every joint-angle vector and every DH table.
C5_Level0IsIdentity ==
    (pc = "T_done" /\ level = 0) => T = Identity4

\* C5 (amended): with level 0 the builder returns the identity only for an
\* empty DH table and a false flag; for an empty table and a true flag it
\* raises IndexError; for every non-empty table it returns the matrix of the
\* first joint alone, T_0(q[0], dh[0]), whatever the flag.
C5_Level0IsFirstJoint ==
    (pc = "T_done" /\ level = 0) =>
        IF Len(DH_params) = 0
        THEN T = (IF flag THEN IndexError ELSE Identity4)
        ELSE /\ T # IndexError
             /\ MatEq(T, JointTransform(q[1], DH_params[1]))
             /\ ~MatEq(T, Identity4)

\* C5 witness: a level-0 call on the Panda table with a tilted first joint
\* has returned a matrix that is not the identity.
C5_Witness ==
    /\ pc = "T_done" /\ level = 0 /\ ~flag
    /\ DH_params = get_panda_DH_params
    /\ q[1] = Tilt
    /\ T # Identity4

\* C8: for a level L < len(DH_params) the builder composes the L + 1 joint
\* matrices T_0..T_L in joint order, whatever flag was passed, and not just
\* the first L; for L = len(DH_params) it composes exactly the L matrices
\* T_0..T_(L-1) when the flag is false (and raises IndexError when it is
\* true); so the result for L = N - 1 is the result for L = N.
C8_InclusiveBelowFullChain ==
    pc = "T_done" =>
        LET N == Len(DH_params)
        IN  /\ level < N =>
                  /\ T # IndexError
                  /\ MatEq(T, ChainProduct(level + 1, q, DH_params))
                  /\ ~MatEq(T, ChainProduct(level, q, DH_params))
            /\ (level = N /\ ~flag) =>
                  /\ T # IndexError
                  /\ MatEq(T, ChainProduct(N, q, DH_params))
            /\ (level = N /\ flag) => T = IndexError
            /\ level = N - 1 =>
                  T = get_transform_to_base_from(N, q, DH_params, FALSE)

\* C8 witness: a call with level 3 and a false flag on the 7-joint table has
\* returned the product of four joint matrices, the fourth joint tilted.
C8_Witness ==
    /\ pc = "T_done" /\ level = 3 /\ ~flag
    /\ DH_params = get_panda_DH_params
    /\ q[4] = Tilt
    /\ T = ChainProduct(4, q, DH_params)
    /\ T # ChainProduct(3, q, DH_params)

\* the frame after the first k joints, in the world frame
WorldFrame(k) == MatMul(base_in, ChainProduct(k, q, DH_params))

\* l is the cross product Z x P, component by component
IsCrossOf(l, Z, P) ==
    VecEq(l, [v |-> << Z.v[2] * P.v[3] - Z.v[3] * P.v[2],
                       Z.v[3] * P.v[1] - Z.v[1] * P.v[3],
                       Z.v[1] * P.v[2] - Z.v[2] * P.v[1] >>,
              den |-> Z.den * P.den])

\* C3: for every joint index i, column i of the Jacobian has rows 0-2 equal
\* to Z_i x P_i (Z first) and rows 3-5 equal to Z_i, where Z_i is the z-axis
\* of a frame of the chain and P_i is the origin of the frame after all N
\* joints minus the origin of that same frame (the frame after joint i).
C3_ColumnIsZCrossP ==
    pc = "J_done" =>
        LET N == Len(DH_params)
        IN  /\ Len(jacobian) = N
            /\ \A i \in 0..(N - 1) :
                  LET F == WorldFrame(i + 1)
                      Z == ZColumn(F)
                      P == VecSub(Origin(WorldFrame(N)), Origin(F))
                      col == jacobian[i + 1]
                  IN  /\ VecEq(col.ang, Z)
                      /\ IsCrossOf(col.lin, Z, P)

\* C3 witness: a 7-column Jacobian has been built for a pose with a tilted
\* joint, and one of its columns has a linear block that is not zero.
C3_Witness ==
    /\ pc = "J_done"
    /\ Len(DH_params) = 7
    /\ q[2] = Tilt
    /\ jacobian[3].lin.v # <<0, 0, 0>>
    /\ jacobian[3].ang = ZColumn(WorldFrame(3))

\* C4 (as claimed): the axis Z_i of column i is the third column of the
\* rotation block of basePose times the transform composing only joints
\* 0..i-1.
C4_AxisOfStartFrame ==
    pc = "J_done" =>
        \A i \in 0..(Len(DH_params) - 1) :
            VecEq(jacobian[i + 1].ang, ZColumn(WorldFrame(i)))

\* C4 (amended): the axis Z_i of column i is the third column of the rotation
\* block of basePose times the transform composing joints 0..i (the frame
\* after joint i's own matrix); it does not depend on joint angle i, and with
\* the Panda table (alpha_0 = 0) Z_0 is the z-axis of the base.
C4_AxisOfJointFrame ==
    pc = "J_done" =>
        \A i \in 0..(Len(DH_params) - 1) :
            /\ VecEq(jacobian[i + 1].ang, ZColumn(WorldFrame(i + 1)))
            /\ \A th \in Angles :
                  VecEq(calc_Z(i, [q EXCEPT ![i + 1] = th], DH_params, base_in),
                        jacobian[i + 1].ang)
            /\ i = 0 => VecEq(jacobian[1].ang, ZColumn(base_in))

\* C4 witness: in a 7-column Jacobian the axis of column 1 is the z-axis of
\* the frame after joints 0 and 1 and differs from the z-axis of the frame
\* after joint 0 alone.
C4_Witness ==
    /\ pc = "J_done"
    /\ Len(DH_params) = 7
    /\ q[1] = Tilt
    /\ VecEq(jacobian[2].ang, ZColumn(WorldFrame(2)))
    /\ ~VecEq(jacobian[2].ang, ZColumn(WorldFrame(1)))

\* C10: the linear block of the last Jacobian column (joint index N-1) is the
\* zero vector for every pose and base, and its angular block is the z-axis
\* of the uncorrected end-effector frame.
C10_LastColumnLinearZero ==
    (pc = "J_done" /\ Len(DH_params) >= 1) =>
        LET N == Len(DH_params)
        IN  /\ jacobian[N].lin.v = <<0, 0, 0>>
            /\ VecEq(jacobian[N].ang, ZColumn(WorldFrame(N)))

\* C10 witness: a 7-column Jacobian built on a base away from the origin for
\* a pose with a tilted last joint has a zero linear block in its last column
\* while the column before it has not.
C10_Witness ==
    /\ pc = "J_done"
    /\ Len(DH_params) = 7
    /\ q[7] = Tilt
    /\ Origin(base_in).v # <<0, 0, 0>>
    /\ jacobian[7].lin.v = <<0, 0, 0>>
    /\ jacobian[6].lin.v # <<0, 0, 0>>

\* C1: your_fk called with a DH table or a joint-angle vector whose length
\* is not 7 raises at the assert, before A or the Jacobian is computed, and
\* returns nothing; with both lengths 7 it never raises and runs on until it
\* returns a pose and a 7-column Jacobian.
C1_DimensionMismatchFailsFast ==
    LET ok == Len(DH_params) = 7 /\ Len(q) = 7
    IN  /\ ~ok => /\ pc \in {"FK_call", "FK_assert", "FK_raised"}
                  /\ A = NoMatrix
                  /\ jacobian = NoValue
                  /\ ret.status # "returned"
        /\ pc = "FK_raised" => (~ok /\ ret = Raised("AssertionError"))
        /\ ok => pc # "FK_raised"
        /\ pc = "FK_done" => /\ ok
                             /\ ret.status = "returned"
                             /\ Len(ret.jacobian) = 7
                             /\ ret.pose_7d.pos.den > 0
        /\ pc \in {"FK_call", "FK_assert", "FK_raised", "FK_init", "FK_chain",
                  "FK_jacobian", "FK_adjust", "FK_return", "FK_done"}

\* C1 witness: a call with a 7-entry DH table and 6 joint angles has raised.
C1_Witness ==
    /\ pc = "FK_raised"
    /\ Len(DH_params) = 7 /\ Len(q) = 6
    /\ ret = Raised("AssertionError")

\* C2: with all joint angles zero and the base at [0,0,0], the position
\* your_fk returns for the Panda table is (0.088, 0, 0.963) m, that is
\* (176, 0, 1926) half-millimetres: x is the sum of the a offsets and z is
\* d1 + d3 + d5 - d7, the d offsets projected through the link twists; the
\* correction adds nothing to it.
C2_ZeroPosePosition ==
    (/\ pc = "FK_done"
     /\ q = [k \in 1..7 |-> Deg0]
     /\ base_in = <<0, 0, 0>>) =>
        LET dh == get_panda_DH_params
            pos == ret.pose_7d.pos
        IN  /\ pos = [v |-> <<176, 0, 1926>>, w |-> <<0, 0, 0>>, den |-> 1]
            /\ pos.v[1] = dh[1].a + dh[2].a + dh[3].a + dh[4].a + dh[5].a + dh[6].a + dh[7].a
            /\ pos.v[3] = dh[1].d + dh[3].d + dh[5].d - dh[7].d

\* C2 witness: your_fk has returned for the zero pose on a base at the origin,
\* with the correction applied to A.
C2_Witness ==
    /\ pc = "FK_done"
    /\ q = [k \in 1..7 |-> Deg0]
    /\ base_in = <<0, 0, 0>>
    /\ A.irr # Zero4
    /\ ret.status = "returned"

\* C6: in the Jacobian your_fk returns, the angular block of every column is
\* a unit vector: the squares of its three entries add up to 1.
C6_AngularBlockUnit ==
    pc = "FK_done" =>
        \A k \in 1..7 :
            LET a == ret.jacobian[k].ang
            IN  a.v[1] * a.v[1] + a.v[2] * a.v[2] + a.v[3] * a.v[3] = a.den * a.den

\* C6 witness: your_fk has returned for a pose with two tilted joints, and
\* the axis of the last column has entries that are proper fractions.
C6_Witness ==
    /\ pc = "FK_done"
    /\ q[2] = Tilt /\ q[4] = Tilt
    /\ Lowest(ret.jacobian[7].ang).den > 1

\* the end-effector transform of your_fk before the correction
Uncorrected ==
    MatMul(get_matrix_from_pose(base_pose),
           get_transform_to_base_from(NumJoints, q, DH_params, FALSE))

\* C7: the -45 degree correction changes only the rotation block of A, by a
\* turn about the frame's own z-axis (z kept, x and y turned): the
\* translation column of A, the returned position and the returned Jacobian
\* are what they are without the correction.
C7_CorrectionOnlyTurnsRotation ==
    pc \in {"FK_return", "FK_done"} =>
        LET U == Uncorrected
        IN  /\ \A i \in 1..4 : A.rat[i][4] = U[i][4] /\ A.irr[i][4] = 0
            /\ A.rat[4] = U[4] /\ A.irr[4] = <<0, 0, 0, 0>>
            /\ \A i \in 1..3 :
                  /\ A.rat[i][1] = 0 /\ A.rat[i][2] = 0 /\ A.rat[i][3] = U[i][3]
                  /\ A.irr[i][1] = U[i][1] - U[i][2]
                  /\ A.irr[i][2] = U[i][1] + U[i][2]
                  /\ A.irr[i][3] = 0
            /\ jacobian = construct_jacobian(Len(DH_params), q, DH_params,
                                             get_matrix_from_pose(base_pose))
            /\ pc = "FK_done" =>
                  /\ ret.pose_7d.pos = [v |-> <<U[1][4], U[2][4], U[3][4]>>,
                                        w |-> <<0, 0, 0>>, den |-> U[4][4]]
                  /\ ret.jacobian = jacobian

\* C7 witness: your_fk has returned for a tilted pose on a base away from the
\* origin; the rotation block of A is no longer that of the uncorrected
\* transform, its translation column is.
C7_Witness ==
    /\ pc = "FK_done"
    /\ q[1] = Tilt
    /\ base_in # <<0, 0, 0>>
    /\ BlockOf(A.rat) # BlockOf(Uncorrected)
    /\ Origin(A.rat) = Origin(Uncorrected)

\* max(0, MAX/n - k * penalty) with penalty = (TASK1_SCORE_MAX/n) / (0.3 * c),
\* brought over the denominator 3 * n * c
ExpectedScore(MAX, n, c, k) ==
    LET num == 3 * MAX * c - 10 * TASK1_SCORE_MAX * k
    IN  IF num < 0 THEN <<0, 1>> ELSE Frac(num, 3 * n * c)

\* the cases of file f (counted from 1) whose error is strictly above thresh
FkFailures(f) ==
    {i \in 1..Len(files[f]) : FracLess(FK_ERROR_THRESH, files[f][i].fk_error)}
JacobianFailures(f) ==
    {i \in 1..Len(files[f]) : FracLess(JACOBIAN_ERROR_THRESH, files[f][i].jacobian_error)}

ScoreLines == {j \in 1..Len(printed) : printed[j].what = "score"}

\* 0 <= x <= y
Within(x, y) == ~FracLess(x, <<0, 1>>) /\ ~FracLess(y, x)

\* C9: when every file has at least one case, score_fk does not raise; for a
\* file whose score it prints, every case of the file was processed exactly
\* once, the error counts are the numbers of cases with an error strictly
\* above the thresholds, and each score is max(0, MAX/n - k * penalty) with
\* k <= cases_num, so it lies in [0, MAX/n]; the total printed is the sum of
\* the scores of all n files and lies in [0, FK_SCORE_MAX + JACOBIAN_SCORE_MAX].
C9_ScoreFormula ==
    LET n == Len(files)
    IN  /\ (\A f \in 1..n : Len(files[f]) >= 1) =>
              (pc # "S_raised" /\ ret.status # "raised")
        /\ \A j \in ScoreLines :
              LET e == printed[j]
                  f == e.file + 1
                  c == Len(files[f])
                  kfk == Cardinality(FkFailures(f))
                  kjac == Cardinality(JacobianFailures(f))
              IN  /\ c >= 1 /\ e.cases_num = c
                  /\ \A i \in 0..(c - 1) :
                        Cardinality({m \in 1..Len(printed) :
                            printed[m] = [what |-> "case", file |-> e.file, i |-> i]}) = 1
                  /\ e.fk_error_cnt = kfk /\ kfk <= c
                  /\ e.jacobian_error_cnt = kjac /\ kjac <= c
                  /\ e.fk_score = ExpectedScore(10, n, c, kfk)
                  /\ e.jacobian_score = ExpectedScore(10, n, c, kjac)
                  /\ Within(e.fk_score, Frac(10, n))
                  /\ Within(e.jacobian_score, Frac(10, n))
        /\ pc = "S_done" =>
              /\ Cardinality(ScoreLines) = n
              /\ \A f \in 1..n : \E j \in ScoreLines : printed[j].file = f - 1
              /\ total.score = FracAdd(SumScores(fk_score, n), SumScores(jacobian_score, n))
              /\ \A j \in ScoreLines :
                    /\ printed[j].fk_score = fk_score[printed[j].file + 1]
                    /\ printed[j].jacobian_score = jacobian_score[printed[j].file + 1]
              /\ Within(total.score, <<20, 1>>)
              /\ total.max = <<20, 1>>

\* C9 witness: score_fk has finished two files; the first has seven cases of
\* which one fails on the pose, and its pose score lies strictly between 0
\* and its maximum 5.
C9_Witness ==
    /\ pc = "S_done"
    /\ Len(files) = 2
    /\ Len(files[1]) = 7
    /\ fk_error_cnt[1] = 1
    /\ FracLess(<<0, 1>>, fk_score[1]) /\ FracLess(fk_score[1], <<5, 1>>)
    /\ jacobian_score[1] = <<0, 1>>

=============================================================================
